---- MODULE Spec2Model ----
(***************************************************************************)
(* Model of local_installer.py: the iterative install loop                 *)
(* install_packages_locally and its two analyses,                          *)
(* extract_dependencies_from_whl and parse_pip_error_for_missing_deps.     *)
(* The fetch function and the pip subprocess are the environment: each     *)
(* call is one step whose outcome is chosen nondeterministically.          *)
(***************************************************************************)
EXTENDS Integers, Sequences, FiniteSets, TLC

(* ------------------------------ bounds -------------------------------- *)
\* largest max_retries a run is started with
MaxRetriesBound == 3
\* number of package names other than the main package
NumDeps == 2
\* names one failed pip invocation reports as missing
MaxReported == 2
\* lines of the METADATA file of the main wheel
MaxMetaLines == 2
\* words of the one line of a one-line error text
MaxWords == 4
\* lines of an error text of several short lines
MaxTextLines == 2

(* ------------------------------ names --------------------------------- *)
main_package_name == "pkg"
DepNames == <<"dep-a", "dep-b", "dep-c", "dep-d", "dep-e">>
Deps == {DepNames[i] : i \in 1..NumDeps}
Names == {main_package_name} \cup Deps

SeqsUpTo(S, n) == UNION {[1..k -> S] : k \in 0..n}
Min(S) == CHOOSE x \in S : \A y \in S : x <= y

(* ------------------- text as sequences of words ----------------------- *)
\* A line is a sequence of words separated by single blanks.  The two
\* trigger phrases of the failure parser are one word each.
NoMatch == "No matching distribution found for"
CouldNot == "Could not find a version that satisfies the requirement"
RequiresDist == "Requires-Dist:"

\* The longest prefix of a word made of [a-zA-Z0-9._-], "" when the word
\* does not start with such a character: what ([a-zA-Z0-9._-]+) captures
\* when the regular expression reaches the word.
NameToken(w) ==
    IF w \in Names THEN w
    ELSE IF w = "ERROR:" THEN "ERROR"
    ELSE IF w = "Name:" THEN "Name"
    ELSE IF w = NoMatch THEN "No"
    ELSE IF w = CouldNot THEN "Could"
    ELSE IF w = RequiresDist THEN "Requires-Dist"
    ELSE ""

\* the capture group with * for +: it also matches no character at all
PatternHits_EmptyName(phrase, line) ==
    {i \in 1..(Len(line) - 1) : line[i] = phrase}

\* pattern.search(line): positions where the phrase is followed by a name
PatternHits(phrase, line) ==
    {i \in 1..(Len(line) - 1) : line[i] = phrase /\ NameToken(line[i + 1]) # ""}

\* the names one line adds to missing_deps (lines 93-101)
LineMissingDeps(line) ==
    IF PatternHits(NoMatch, line) # {}
    THEN {NameToken(line[Min(PatternHits(NoMatch, line)) + 1])}
    ELSE IF PatternHits(CouldNot, line) # {}
    THEN {NameToken(line[Min(PatternHits(CouldNot, line)) + 1])}
    ELSE {}

parse_pip_error_for_missing_deps(error_output) ==
    UNION {LineMissingDeps(error_output[i]) : i \in 1..Len(error_output)}

(* --------------------------- wheel archives --------------------------- *)
\* A wheel is [valid, members]; a member is [metadata, lines, bad]:
\* metadata says its path ends with .dist-info/METADATA, lines is its text,
\* bad is the number of the first line whose decoding raises (0: none).
MetadataMembers(whl) ==
    {i \in 1..Len(whl.members) : whl.members[i].metadata}

\* line 54 capturing the end of the line instead of the leading name
LineRequires_LastWord(line) ==
    IF Len(line) >= 2 /\ line[1] = RequiresDist /\ NameToken(line[2]) # ""
    THEN {line[Len(line)]}
    ELSE {}

\* the name a METADATA line adds to dependencies (lines 51-57)
LineRequires(line) ==
    IF Len(line) >= 2 /\ line[1] = RequiresDist /\ NameToken(line[2]) # ""
    THEN {NameToken(line[2])}
    ELSE {}

\* the lines the for loop at line 50 gets through before an error
LinesRead(member) ==
    IF member.bad = 0 THEN Len(member.lines) ELSE member.bad - 1

extract_dependencies_from_whl(whl) ==
    IF ~whl.valid THEN {}
    ELSE IF MetadataMembers(whl) = {} THEN {}
    ELSE LET m == whl.members[Min(MetadataMembers(whl))]
         IN  UNION {LineRequires(m.lines[i]) : i \in 1..LinesRead(m)}

(* ------------------------ inputs of the run --------------------------- *)
MetaLines ==
    {<<RequiresDist, n>> : n \in Names}
        \cup {<<RequiresDist, n, "(>=1.0,<2)">> : n \in Deps}
        \cup {<<"Name:", main_package_name>>}

OtherMember == [metadata |-> FALSE, lines |-> <<>>, bad |-> 0]

MetadataMember ==
    {[metadata |-> TRUE, lines |-> t[1], bad |-> t[2]] :
        t \in {u \in SeqsUpTo(MetaLines, MaxMetaLines) \X (0..MaxMetaLines) :
                  u[2] <= Len(u[1])}}

Wheels ==
    {[valid |-> FALSE, members |-> <<>>],
     [valid |-> TRUE, members |-> <<OtherMember>>]}
        \cup {[valid |-> TRUE, members |-> <<OtherMember, m>>] :
                 m \in MetadataMember}

\* the names of S in some order
RECURSIVE SetToSeq(_)
SetToSeq(S) ==
    IF S = {} THEN <<>>
    ELSE LET n == CHOOSE x \in S : TRUE
         IN  <<n>> \o SetToSeq(S \ {n})

\* what pip prints for requirements it cannot satisfy from the local files:
\* either of the two lines, or both
RECURSIVE PipStderr(_, _)
PipStderr(names, form) ==
    IF names = <<>> THEN <<>>
    ELSE (IF form = "both"
          THEN << <<"ERROR:", CouldNot, Head(names), "(from versions: none)">>,
                  <<"ERROR:", NoMatch, Head(names)>> >>
          ELSE IF form = "version"
          THEN << <<"ERROR:", CouldNot, Head(names), "(from versions: none)">> >>
          ELSE << <<"ERROR:", NoMatch, Head(names)>> >>)
         \o PipStderr(Tail(names), form)

StderrTexts ==
    {<< <<"ERROR:", "ResolutionImpossible">> >>}
        \cup {PipStderr(SetToSeq(S), form) :
                 S \in {T \in SUBSET Names : Cardinality(T) <= MaxReported},
                 form \in {"both", "version", "distribution"}}

FetchOutcomes == {"path", "absent", "raise"}

(* ------------------------------- state -------------------------------- *)
VARIABLES
    pc,                     \* position in install_packages_locally
    max_retries,            \* the parameter
    attempt,
    installed_successfully,
    downloaded_packages,
    initial_deps,
    seed_pending,           \* names the for loop at line 149 has yet to visit
    missing_deps,
    newly_identified_deps,
    fetch_pending,          \* names the for loop at line 213 has yet to visit
    download_success_count,
    result,                 \* "none", "True", "False", or "raised"
    reason,                 \* the exit the run took
    install_log,            \* history: outcome of each pip invocation
    reported,               \* history: the one name every invocation reported
    downloaded_at_install,  \* history: downloaded_packages at the last invocation
    fetch_count,            \* history: fetch_func calls per name
    fetch_ok,               \* history: names some fetch returned a path for
    fetch_round,            \* history: <<name, outcome>> of this attempt's fetches
    extract_calls,          \* history: calls of extract_dependencies_from_whl
    error_output,           \* argument of parse_pip_error_for_missing_deps
    parsed,                 \* what it returned
    whl_path,               \* argument of extract_dependencies_from_whl
    dependencies            \* what it returned

vars == <<pc, max_retries, attempt, installed_successfully,
          downloaded_packages, initial_deps, seed_pending, missing_deps,
          newly_identified_deps, fetch_pending, download_success_count,
          result, reason, install_log, reported, downloaded_at_install,
          fetch_count, fetch_ok, fetch_round, extract_calls,
          error_output, parsed, whl_path, dependencies>>

\* the variables of the while loop
locals == <<max_retries, attempt, installed_successfully, missing_deps,
            newly_identified_deps, fetch_pending, download_success_count>>

\* the variables of the seed phase
seeds == <<initial_deps, seed_pending>>

\* the two analyses called on their own
units == <<error_output, parsed, whl_path, dependencies>>

\* the history of the pip invocations
installs == <<install_log, reported, downloaded_at_install>>

\* lines 130-132: the variables of a run before its first step
RunStart ==
    /\ attempt = 0
    /\ installed_successfully = FALSE
    /\ downloaded_packages = {}
    /\ initial_deps = {}
    /\ seed_pending = {}
    /\ missing_deps = {}
    /\ newly_identified_deps = {}
    /\ fetch_pending = {}
    /\ download_success_count = 0
    /\ result = "none"
    /\ reason = "none"
    /\ install_log = <<>>
    /\ reported = "none"
    /\ downloaded_at_install = {}
    /\ fetch_count = [n \in Names |-> 0]
    /\ fetch_ok = {}
    /\ fetch_round = {}
    /\ extract_calls = 0

\* no call of an analysis on its own
UnitsIdle ==
    /\ error_output = <<>>
    /\ parsed = {}
    /\ whl_path = [valid |-> FALSE, members |-> <<>>]
    /\ dependencies = {}

Init ==
    /\ pc = "main_fetch"
    /\ max_retries \in 0..MaxRetriesBound
    /\ RunStart
    /\ UnitsIdle

\* one call fetch_func(name, download_dir) with the given outcome
Fetched(name, outcome) ==
    /\ fetch_count' = [fetch_count EXCEPT ![name] = @ + 1]
    /\ fetch_ok' = IF outcome = "path" THEN fetch_ok \cup {name} ELSE fetch_ok
    /\ fetch_round' = fetch_round \cup {<<name, outcome>>}

NoFetch == UNCHANGED <<fetch_count, fetch_ok, fetch_round>>

\* one pip invocation with the given outcome and parsed stderr; reported
\* stays a name while every invocation failed and reported just that name
Installed(rc, missing) ==
    /\ install_log' = Append(install_log, rc)
    /\ downloaded_at_install' = downloaded_packages
    /\ reported' =
          IF rc = "failed" /\ Cardinality(missing) = 1
                /\ (install_log = <<>> \/ missing = {reported})
          THEN CHOOSE x \in missing : TRUE
          ELSE "varied"

\* line 233 returning a constant
Return_AlwaysFalse(why) ==
    /\ pc' = "done"
    /\ result' = "False"
    /\ reason' = why

\* return installed_successfully (line 233, reached by break or loop exit)
Return(why) ==
    /\ pc' = "done"
    /\ result' = IF installed_successfully THEN "True" ELSE "False"
    /\ reason' = why

\* an exception leaves install_packages_locally
Propagate ==
    /\ pc' = "done"
    /\ result' = "raised"
    /\ reason' = "Raised"

\* lines 137-139 left out: the run goes on without the main package
MainFetchAbsent_GoesOn ==
    /\ pc = "main_fetch"
    /\ Fetched(main_package_name, "absent")
    /\ downloaded_packages' = downloaded_packages \cup {main_package_name}
    /\ initial_deps' = extract_dependencies_from_whl(
                           [valid |-> FALSE, members |-> <<>>])
    /\ seed_pending' = initial_deps'
    /\ extract_calls' = extract_calls + 1
    /\ pc' = "seed"
    /\ UNCHANGED <<locals, result, reason, installs>>
    /\ UNCHANGED units

(* lines 134-139: the fetch of the main package returns None *)
MainFetchAbsent ==
    /\ pc = "main_fetch"
    /\ Fetched(main_package_name, "absent")
    /\ pc' = "done"
    /\ result' = "False"
    /\ reason' = "MainPackageUnavailable"
    /\ UNCHANGED <<locals, seeds, downloaded_packages, installs,
                   extract_calls>>
    /\ UNCHANGED units

(* line 136: the fetch of the main package raises *)
MainFetchRaises ==
    /\ pc = "main_fetch"
    /\ Fetched(main_package_name, "raise")
    /\ Propagate
    /\ UNCHANGED <<locals, seeds, downloaded_packages, installs,
                   extract_calls>>
    /\ UNCHANGED units

(* lines 134-146: the fetch of the main package returns a path; the  *)
(* wheel at that path is read for its declared dependencies          *)
MainFetchPath ==
    /\ pc = "main_fetch"
    /\ \E whl \in Wheels :
          /\ Fetched(main_package_name, "path")
          /\ downloaded_packages' = downloaded_packages \cup {main_package_name}
          /\ initial_deps' = extract_dependencies_from_whl(whl)
          /\ seed_pending' = initial_deps'
          /\ extract_calls' = extract_calls + 1
          /\ pc' = "seed"
    /\ UNCHANGED <<locals, result, reason, installs>>
    /\ UNCHANGED units

\* line 150 left out
SeedTarget_All(dep, downloaded) == TRUE

(* line 150: the names of initial_deps that are fetched *)
SeedTarget(dep, downloaded) == dep \notin downloaded

(* lines 149-150: an iteration that skips its name *)
SeedSkip ==
    /\ pc = "seed"
    /\ \E dep \in seed_pending :
          /\ ~SeedTarget(dep, downloaded_packages)
          /\ seed_pending' = seed_pending \ {dep}
    /\ NoFetch
    /\ UNCHANGED <<locals, pc, initial_deps, downloaded_packages, result,
                   reason, installs, extract_calls>>
    /\ UNCHANGED units

(* lines 149-156: an iteration that fetches its name *)
SeedFetch ==
    /\ pc = "seed"
    /\ \E dep \in seed_pending, outcome \in FetchOutcomes :
          /\ SeedTarget(dep, downloaded_packages)
          /\ Fetched(dep, outcome)
          /\ IF outcome = "raise"
             THEN /\ Propagate
                  /\ UNCHANGED <<downloaded_packages, seed_pending>>
             ELSE /\ seed_pending' = seed_pending \ {dep}
                  /\ downloaded_packages' =
                        IF outcome = "path"
                        THEN downloaded_packages \cup {dep}
                        ELSE downloaded_packages
                  /\ UNCHANGED <<pc, result, reason>>
    /\ UNCHANGED <<locals, initial_deps, installs, extract_calls>>
    /\ UNCHANGED units

(* the for loop at line 149 is exhausted *)
SeedDone ==
    /\ pc = "seed"
    /\ seed_pending = {}
    /\ pc' = "loop"
    /\ NoFetch
    /\ UNCHANGED <<locals, seeds, downloaded_packages, result, reason,
                   installs, extract_calls>>
    /\ UNCHANGED units

\* line 158 without the bound on attempt
WhileCond_NoBound(installed, att, max) == ~installed

\* line 158 with <= for <
WhileCond_OffByOne(installed, att, max) == ~installed /\ att <= max

(* line 158: the loop condition *)
WhileCond(installed, att, max) == ~installed /\ att < max

(* lines 158, 233: the loop condition is false *)
LoopExit ==
    /\ pc = "loop"
    /\ ~WhileCond(installed_successfully, attempt, max_retries)
    /\ Return(IF installed_successfully THEN "Success"
              ELSE "MaxAttemptsExceeded")
    /\ NoFetch
    /\ UNCHANGED <<locals, seeds, downloaded_packages, installs,
                   extract_calls>>
    /\ UNCHANGED units

\* line 189 left out
SuccessFlag_NotSet == FALSE

(* line 189: the value installed_successfully gets on exit status 0 *)
SuccessFlag == TRUE

(* lines 159-189: an attempt whose pip invocation exits with status 0 *)
AttemptSucceeds ==
    /\ pc = "loop"
    /\ WhileCond(installed_successfully, attempt, max_retries)
    /\ attempt' = attempt + 1
    /\ Installed("ok", {})
    /\ installed_successfully' = SuccessFlag
    /\ NoFetch
    /\ UNCHANGED <<pc, max_retries, missing_deps, newly_identified_deps,
                   fetch_pending, download_success_count, seeds,
                   downloaded_packages, result, reason, extract_calls>>
    /\ UNCHANGED units

\* lines 228 and 231 with pass for break: the loop goes on after the error
AttemptRaises_GoesOn ==
    /\ pc = "loop"
    /\ WhileCond(installed_successfully, attempt, max_retries)
    /\ attempt' = attempt + 1
    /\ \E e \in {"InstallerNotFound", "UnexpectedError"} : Installed(e, {})
    /\ NoFetch
    /\ UNCHANGED <<pc, result, reason, max_retries, installed_successfully,
                   missing_deps, newly_identified_deps, fetch_pending,
                   download_success_count, seeds, downloaded_packages,
                   extract_calls>>
    /\ UNCHANGED units

(* lines 159-184, 226-231: subprocess.run raises *)
AttemptRaises ==
    /\ pc = "loop"
    /\ WhileCond(installed_successfully, attempt, max_retries)
    /\ attempt' = attempt + 1
    /\ \E e \in {"InstallerNotFound", "UnexpectedError"} :
          /\ Installed(e, {})
          /\ Return(e)
    /\ NoFetch
    /\ UNCHANGED <<max_retries, installed_successfully, missing_deps,
                   newly_identified_deps, fetch_pending,
                   download_success_count, seeds, downloaded_packages,
                   extract_calls>>
    /\ UNCHANGED units

\* line 203 without the subtraction
NewlyIdentified_NoSubtract(missing, downloaded) == missing

(* line 203 *)
NewlyIdentified(missing, downloaded) == missing \ downloaded

\* lines 196-201 left out
Classify_NoEmptyCheck(missing, downloaded) ==
    IF NewlyIdentified(missing, downloaded) = {} THEN "Stalled"
    ELSE "fetch_missing"

\* lines 204-207 left out
Classify_NoStallCheck(missing, downloaded) ==
    IF missing = {} THEN "Unparseable" ELSE "fetch_missing"

(* lines 196-207: what a failed attempt does with the parsed names *)
Classify(missing, downloaded) ==
    IF missing = {} THEN "Unparseable"
    ELSE IF NewlyIdentified(missing, downloaded) = {} THEN "Stalled"
    ELSE "fetch_missing"

(* lines 159-212: an attempt whose pip invocation fails *)
AttemptFails ==
    /\ pc = "loop"
    /\ WhileCond(installed_successfully, attempt, max_retries)
    /\ attempt' = attempt + 1
    /\ \E stderr \in StderrTexts :
          LET missing == parse_pip_error_for_missing_deps(stderr)
              new == NewlyIdentified(missing, downloaded_packages)
              branch == Classify(missing, downloaded_packages)
          IN  /\ Installed("failed", missing)
              /\ missing_deps' = missing
              /\ IF branch = "Unparseable"
                 THEN /\ Return(branch)
                      /\ UNCHANGED <<newly_identified_deps, fetch_pending,
                                     download_success_count>>
                 ELSE IF branch = "Stalled"
                 THEN /\ Return(branch)
                      /\ newly_identified_deps' = new
                      /\ UNCHANGED <<fetch_pending, download_success_count>>
                 ELSE /\ newly_identified_deps' = new
                      /\ fetch_pending' = new
                      /\ download_success_count' = 0
                      /\ pc' = "fetch_missing"
                      /\ UNCHANGED <<result, reason>>
    /\ fetch_round' = {}
    /\ UNCHANGED <<max_retries, installed_successfully, seeds,
                   downloaded_packages, fetch_count, fetch_ok, extract_calls>>
    /\ UNCHANGED units

\* line 217 moved out of the if at line 216: the attempt is recorded
FetchMissing_RecordsAttempt ==
    /\ pc = "fetch_missing"
    /\ \E dep \in fetch_pending, outcome \in FetchOutcomes :
          /\ Fetched(dep, outcome)
          /\ IF outcome = "raise"
             THEN /\ Return("UnexpectedError")
                  /\ UNCHANGED <<downloaded_packages, fetch_pending,
                                 download_success_count>>
             ELSE /\ fetch_pending' = fetch_pending \ {dep}
                  /\ downloaded_packages' = downloaded_packages \cup {dep}
                  /\ download_success_count' =
                        IF outcome = "path"
                        THEN download_success_count + 1
                        ELSE download_success_count
                  /\ UNCHANGED <<pc, result, reason>>
    /\ UNCHANGED <<max_retries, attempt, installed_successfully, missing_deps,
                   newly_identified_deps, seeds, installs,
                   extract_calls>>
    /\ UNCHANGED units

(* lines 213-220: one iteration of the loop over newly_identified_deps; *)
(* a raising fetch is caught at line 229                                 *)
FetchMissing ==
    /\ pc = "fetch_missing"
    /\ \E dep \in fetch_pending, outcome \in FetchOutcomes :
          /\ Fetched(dep, outcome)
          /\ IF outcome = "raise"
             THEN /\ Return("UnexpectedError")
                  /\ UNCHANGED <<downloaded_packages, fetch_pending,
                                 download_success_count>>
             ELSE /\ fetch_pending' = fetch_pending \ {dep}
                  /\ downloaded_packages' =
                        IF outcome = "path"
                        THEN downloaded_packages \cup {dep}
                        ELSE downloaded_packages
                  /\ download_success_count' =
                        IF outcome = "path"
                        THEN download_success_count + 1
                        ELSE download_success_count
                  /\ UNCHANGED <<pc, result, reason>>
    /\ UNCHANGED <<max_retries, attempt, installed_successfully, missing_deps,
                   newly_identified_deps, seeds, installs,
                   extract_calls>>
    /\ UNCHANGED units

\* lines 222-224 left out
NoProgress_Never(count, new) == FALSE

(* line 222 *)
NoProgress(count, new) == count = 0 /\ Cardinality(new) > 0

(* lines 222-224: after the fetches of one attempt *)
FetchesDone ==
    /\ pc = "fetch_missing"
    /\ fetch_pending = {}
    /\ IF NoProgress(download_success_count, newly_identified_deps)
       THEN Return("NoDownloadProgress")
       ELSE pc' = "loop" /\ UNCHANGED <<result, reason>>
    /\ NoFetch
    /\ UNCHANGED <<locals, seeds, downloaded_packages, installs,
                   extract_calls>>
    /\ UNCHANGED units

Next ==
    \/ MainFetchAbsent
    \/ MainFetchRaises
    \/ MainFetchPath
    \/ SeedSkip
    \/ SeedFetch
    \/ SeedDone
    \/ LoopExit
    \/ AttemptSucceeds
    \/ AttemptRaises
    \/ AttemptFails
    \/ FetchMissing
    \/ FetchesDone

Spec == Init /\ [][Next]_vars

\* The run is one sequential thread: a step that can be taken is taken.
FairSpec == Spec /\ WF_vars(Next)


(* --------------- the failure parser called on its own ----------------- *)
Phrases == {NoMatch, CouldNot}
Words == Phrases \cup Names \cup {"ERROR:", "(from versions: none)"}

\* a word alone, or a trigger phrase and the word after it
ShortLines ==
    {<<w>> : w \in Words} \cup {<<p, w>> : p \in Phrases, w \in Words}

\* one line of up to MaxWords words, or up to MaxTextLines short lines
ParseTexts ==
    {<<l>> : l \in SeqsUpTo(Words, MaxWords)}
        \cup SeqsUpTo(ShortLines, MaxTextLines)

ParseInit ==
    /\ pc = "parse"
    /\ max_retries = 0
    /\ RunStart
    /\ error_output \in ParseTexts
    /\ parsed = {}
    /\ whl_path = [valid |-> FALSE, members |-> <<>>]
    /\ dependencies = {}

(* lines 69-107 *)
Parse ==
    /\ pc = "parse"
    /\ parsed' = parse_pip_error_for_missing_deps(error_output)
    /\ pc' = "parsed"
    /\ UNCHANGED <<locals, seeds, installs, downloaded_packages, result,
                   reason, fetch_count, fetch_ok, fetch_round, extract_calls,
                   error_output, whl_path, dependencies>>

ParseSpec == ParseInit /\ [][Parse]_vars

(* ------------- the metadata extractor called on its own --------------- *)
\* a second METADATA member, after the one extraction reads
LaterMember ==
    [metadata |-> TRUE, lines |-> << <<RequiresDist, main_package_name>> >>,
     bad |-> 0]

ExtractWheels ==
    Wheels \cup {[valid |-> TRUE, members |-> <<m, LaterMember>>] :
                    m \in MetadataMember \cup {OtherMember}}

ExtractInit ==
    /\ pc = "extract"
    /\ max_retries = 0
    /\ RunStart
    /\ error_output = <<>>
    /\ parsed = {}
    /\ whl_path \in ExtractWheels
    /\ dependencies = {}

(* lines 18-66 *)
Extract ==
    /\ pc = "extract"
    /\ dependencies' = extract_dependencies_from_whl(whl_path)
    /\ pc' = "extracted"
    /\ UNCHANGED <<locals, seeds, installs, downloaded_packages, result,
                   reason, fetch_count, fetch_ok, fetch_round, extract_calls,
                   error_output, parsed, whl_path>>

ExtractSpec == ExtractInit /\ [][Extract]_vars

(* ============================= claims ================================= *)
InstallCalls == Len(install_log)
Rc(k) == install_log[k]

\* C1: every run terminates, and at no point has it performed more than
\* max_retries + 1 install invocations.
C1_Termination ==
    /\ <>(pc = "done")
    /\ [](InstallCalls <= max_retries + 1)

\* a run that used every attempt it was given
C1_Witness ==
    pc = "done" /\ max_retries >= 2 /\ InstallCalls = max_retries

\* C2: when an install invocation exits with status 0 it is the last one of
\* the run (invocation k, after k-1 failed invocations that each led to a
\* successful fetch of a new name), and the run returns True.
C2_SuccessAtFirstZeroExit ==
    /\ [](\A k \in 1..InstallCalls :
             Rc(k) = "ok" =>
                /\ k = InstallCalls
                /\ k <= max_retries
                /\ \A j \in 1..(k - 1) : Rc(j) = "failed"
                /\ pc \in {"loop", "done"}
                /\ pc = "done" => result = "True" /\ reason = "Success")
    /\ ((InstallCalls > 0 /\ Rc(InstallCalls) = "ok") ~> (result = "True"))

\* success on the second invocation, after one missing dependency was fetched
C2_Witness ==
    /\ result = "True"
    /\ InstallCalls = 2
    /\ downloaded_packages = {main_package_name, DepNames[1]}

\* the fetch of the main package returned None
MainAbsent ==
    /\ pc # "main_fetch"
    /\ main_package_name \notin fetch_ok
    /\ reason # "Raised"

\* C3: when the fetch of the main package returns absent the run has
\* returned False at once: no install invocation, no metadata extraction,
\* no fetch of any other name.
C3_MainPackageUnavailable ==
    MainAbsent =>
        /\ pc = "done"
        /\ result = "False"
        /\ reason = "MainPackageUnavailable"
        /\ install_log = <<>>
        /\ extract_calls = 0
        /\ fetch_count = [n \in Names |->
                             IF n = main_package_name THEN 1 ELSE 0]

C3_Witness == MainAbsent /\ pc = "done" /\ max_retries >= 1

\* the names this attempt's fetches returned a path for, and whether one raised
RoundOk == {n \in Names : <<n, "path">> \in fetch_round}
RoundRaised == \E n \in Names : <<n, "raise">> \in fetch_round
RoundNames == {p[1] : p \in fetch_round}

\* C4: once every name of a non-empty new = parsed - DownloadedSet has been
\* fetched, the run returns False (NoDownloadProgress) exactly when none of
\* those fetches returned a path, and otherwise goes back to the loop, where
\* a remaining attempt is the next install invocation.
C4_NoDownloadProgress ==
    [][/\ (pc = "fetch_missing" /\ pc' # "fetch_missing" /\ ~RoundRaised')
            => /\ fetch_round' = fetch_round
               /\ RoundNames = newly_identified_deps
               /\ newly_identified_deps # {}
               /\ install_log' = install_log
               /\ IF RoundOk = {}
                  THEN /\ pc' = "done"
                       /\ result' = "False"
                       /\ reason' = "NoDownloadProgress"
                  ELSE /\ pc' = "loop"
                       /\ result' = "none"
       /\ (pc = "loop" /\ ~installed_successfully /\ attempt < max_retries)
            => InstallCalls' = InstallCalls + 1
      ]_vars

\* the first attempt reported one name and its fetch returned None
C4_Witness ==
    /\ reason = "NoDownloadProgress"
    /\ InstallCalls = 1
    /\ Cardinality(newly_identified_deps) = 1
    /\ max_retries >= 2

\* the step is a failed install invocation that reported the names in S
FailedWith(S) ==
    /\ InstallCalls' = InstallCalls + 1
    /\ install_log'[InstallCalls'] = "failed"
    /\ missing_deps' = S

\* C5: a failed install invocation whose error text parses to the empty set
\* ends the run at that attempt (Unparseable) without any fetch.
C5_Unparseable ==
    [][FailedWith({}) =>
          /\ pc' = "done"
          /\ result' = "False"
          /\ reason' = "Unparseable"
          /\ fetch_count' = fetch_count
          /\ downloaded_packages' = downloaded_packages]_vars

C5_Witness ==
    /\ reason = "Unparseable"
    /\ InstallCalls = 2
    /\ max_retries = 3

\* C6: a failed install invocation that reports only names already in
\* DownloadedSet ends the run at that attempt (Stalled) without any fetch.
C6_Stalled ==
    [][\A S \in (SUBSET Names) \ {{}} :
          (FailedWith(S) /\ S \subseteq downloaded_packages) =>
              /\ pc' = "done"
              /\ result' = "False"
              /\ reason' = "Stalled"
              /\ fetch_count' = fetch_count
              /\ downloaded_packages' = downloaded_packages]_vars

\* the installer reported only the main package itself
C6_Witness ==
    /\ reason = "Stalled"
    /\ InstallCalls = 1
    /\ missing_deps = {main_package_name}
    /\ max_retries >= 2

\* every install invocation so far failed and reported exactly the name x
SameName(x) ==
    /\ InstallCalls >= 1
    /\ main_package_name \in fetch_ok
    /\ reported = x

\* C7 as stated: with max_retries >= 2 and an installer that always reports
\* the same single name, the run stops with reason Stalled on or before the
\* second install invocation, whatever its fetches return.
C7_AlwaysStalled ==
    \A x \in Names :
        (max_retries >= 2 /\ SameName(x) /\ ~RoundRaised) =>
            /\ InstallCalls <= 2
            /\ pc = "done" => reason = "Stalled"

\* C7 amended: the run stops on or before the second install invocation;
\* the reason is Stalled when the name is in DownloadedSet, and otherwise
\* the exit taken when its fetch returned None or raised.
C7_StopsBySecondAttempt ==
    \A x \in Names :
        (max_retries >= 2 /\ SameName(x)) =>
            /\ InstallCalls <= 2
            /\ pc = "done" =>
                  reason = IF x \in downloaded_packages THEN "Stalled"
                           ELSE IF <<x, "raise">> \in fetch_round
                                THEN "UnexpectedError"
                           ELSE "NoDownloadProgress"

\* the same name reported twice, fetched in between
C7_Witness ==
    /\ pc = "done"
    /\ max_retries = 3
    /\ InstallCalls = 2
    /\ SameName(DepNames[1])

AllFailed == \A k \in 1..InstallCalls : Rc(k) = "failed"

\* C8: when all max_retries install invocations have failed and the last one
\* led to a successful fetch, the run returns False (MaxAttemptsExceeded)
\* without another install invocation or fetch.
C8_MaxAttemptsExceeded ==
    /\ [][(pc = "loop" /\ max_retries >= 1 /\ InstallCalls = max_retries
             /\ AllFailed)
            => /\ pc' = "done"
               /\ result' = "False"
               /\ reason' = "MaxAttemptsExceeded"
               /\ install_log' = install_log
               /\ fetch_count' = fetch_count]_vars
    /\ [](reason = "MaxAttemptsExceeded" => InstallCalls = max_retries)

C8_Witness ==
    /\ reason = "MaxAttemptsExceeded"
    /\ max_retries = 2
    /\ InstallCalls = 2
    /\ AllFailed

\* C9: DownloadedSet starts empty, never loses a name, and no fetch is ever
\* called for a name that is in it.
C9_MonotonicDownloadedSet ==
    /\ [](pc = "main_fetch" => downloaded_packages = {})
    /\ [][/\ downloaded_packages \subseteq downloaded_packages'
          /\ \A n \in Names :
                fetch_count'[n] > fetch_count[n] => n \notin downloaded_packages
         ]_vars

\* a later attempt reported a downloaded name again, next to a new one
C9_Witness ==
    /\ pc = "fetch_missing"
    /\ InstallCalls = 2
    /\ (missing_deps \cap downloaded_packages) \ {main_package_name} # {}

\* C10: fetch is called at most once for any name in one run.
C10_FetchAtMostOnce ==
    \A n \in Names : fetch_count[n] <= 1

\* C11: once a loop attempt has fetched every name of new, each of them is
\* in DownloadedSet, whether its fetch returned a path or absent.
C11_AttemptRecorded ==
    (pc = "fetch_missing" /\ fetch_pending = {} /\ ~RoundRaised)
        => newly_identified_deps \subseteq downloaded_packages

\* C12: the run never ends with an error leaving install_packages_locally;
\* it ends by returning True or False.
C12_AlwaysReturns ==
    /\ result # "raised"
    /\ pc = "done" => result \in {"True", "False"}

\* C13: after a successful main fetch every declared dependency other than
\* the main name has been fetched exactly once when the loop is entered, no
\* other name has been fetched, and no run with max_retries >= 1 ends
\* without an install invocation.
C13_SeedBestEffort ==
    main_package_name \in fetch_ok =>
        /\ (pc = "done" /\ max_retries >= 1) => InstallCalls >= 1
        /\ (pc = "loop" /\ InstallCalls = 0) =>
              \A n \in Names \ {main_package_name} :
                  fetch_count[n] = IF n \in initial_deps THEN 1 ELSE 0

\* C18: between two consecutive install invocations DownloadedSet gains at
\* least one name, and every name it gains was fetched successfully.
C18_ProgressBetweenInstalls ==
    [][(InstallCalls >= 1 /\ InstallCalls' = InstallCalls + 1) =>
          /\ downloaded_at_install \subseteq downloaded_packages
          /\ downloaded_at_install # downloaded_packages
          /\ (downloaded_packages \ downloaded_at_install) \subseteq RoundOk
      ]_vars

\* a third invocation, after two rounds of fetches
C18_Witness ==
    /\ InstallCalls = 3
    /\ Cardinality(downloaded_at_install) = 3

\* C19: the run returns True exactly when its last install invocation exited
\* with status 0, and after such an invocation there is no further fetch and
\* no further install invocation.
C19_TrueIffLastExitZero ==
    /\ [](pc = "done" =>
            (result = "True" <=>
                (InstallCalls > 0 /\ Rc(InstallCalls) = "ok")))
    /\ [][(InstallCalls > 0 /\ Rc(InstallCalls) = "ok") =>
             /\ fetch_count' = fetch_count
             /\ install_log' = install_log]_vars

C19_Witness ==
    /\ pc = "done"
    /\ result = "True"
    /\ InstallCalls = 3

NamesAfterPhrase ==
    {NameToken(error_output[i][j + 1]) :
        <<i, j>> \in {ij \in (1..Len(error_output)) \X (1..MaxWords) :
                        /\ ij[2] < Len(error_output[ij[1]])
                        /\ error_output[ij[1]][ij[2]] \in Phrases
                        /\ NameToken(error_output[ij[1]][ij[2] + 1]) # ""}}

\* what the recognizer of one phrase matches on one line: the name token
\* after the first place where the phrase is followed by one
Recognized(phrase, line) ==
    IF \E j \in 1..(Len(line) - 1) :
          line[j] = phrase /\ NameToken(line[j + 1]) # ""
    THEN {NameToken(line[1 + Min({j \in 1..(Len(line) - 1) :
              line[j] = phrase /\ NameToken(line[j + 1]) # ""})])}
    ELSE {}

\* C14: on every line each of the two recognizers contributes the package
\* name it matches to the result of parse_pip_error_for_missing_deps, also
\* when both trigger phrases occur on that line with different names.
C14_BothRecognizers ==
    pc = "parsed" =>
        \A i \in 1..Len(error_output) : \A p \in Phrases :
            (Recognized(p, error_output[i]) \cap Names) \subseteq parsed

PipLine == <<"ERROR:", NoMatch, DepNames[1]>>

\* C15: every name parse_pip_error_for_missing_deps returns is the name
\* token right after a trigger phrase on some line; a text without a trigger
\* phrase gives the empty set, and the line 'ERROR: No matching distribution
\* found for <name>' gives just that name.
C15_ParsePrecise ==
    pc = "parsed" =>
        /\ "" \notin parsed
        /\ parsed \subseteq NamesAfterPhrase
        /\ (\A i \in 1..Len(error_output) : \A j \in 1..Len(error_output[i]) :
               error_output[i][j] \notin Phrases) => parsed = {}
        /\ error_output = <<PipLine>> => parsed = {DepNames[1]}

C15_Witness ==
    /\ pc = "parsed"
    /\ error_output = <<PipLine>>
    /\ parsed = {DepNames[1]}

\* the member extraction reads: the first whose path ends with
\* .dist-info/METADATA
HasMetadata == \E i \in 1..Len(whl_path.members) : whl_path.members[i].metadata
FirstMetadata ==
    whl_path.members[CHOOSE i \in 1..Len(whl_path.members) :
        /\ whl_path.members[i].metadata
        /\ \A k \in 1..(i - 1) : ~whl_path.members[k].metadata]

\* opening the archive or decoding a line of METADATA raises
ExtractError ==
    \/ ~whl_path.valid
    \/ HasMetadata /\ FirstMetadata.bad > 0

\* C16: an extraction during which an error occurred returns the empty set.
C16_ErrorGivesEmpty ==
    (pc = "extracted" /\ ExtractError) => dependencies = {}

\* the names declared by the Requires-Dist lines of the member read
Declared ==
    IF ~HasMetadata THEN {}
    ELSE {n \in Names :
            \E i \in 1..Len(FirstMetadata.lines) :
                /\ Len(FirstMetadata.lines[i]) >= 2
                /\ FirstMetadata.lines[i][1] = RequiresDist
                /\ FirstMetadata.lines[i][2] = n}

\* C17: an extraction without error returns exactly the names declared by
\* the Requires-Dist lines of the first METADATA member, without qualifiers.
C17_ExactDeclaredNames ==
    (pc = "extracted" /\ ~ExtractError) => dependencies = Declared

\* two METADATA members, the first declaring a name with a version range
C17_Witness ==
    /\ pc = "extracted"
    /\ Len(whl_path.members) = 2
    /\ whl_path.members[1].metadata
    /\ whl_path.members[1].lines =
          << <<RequiresDist, DepNames[1], "(>=1.0,<2)">> >>
    /\ dependencies = {DepNames[1]}

\* the step is a pip invocation that could not be run or raised
InstallRaised ==
    /\ InstallCalls' = InstallCalls + 1
    /\ install_log'[InstallCalls'] \in {"InstallerNotFound", "UnexpectedError"}

\* the step is a fetch of a loop attempt that raised
LoopFetchRaised ==
    /\ pc = "fetch_missing"
    /\ ~RoundRaised
    /\ RoundRaised'

\* C21: when the pip invocation of a loop attempt cannot be run or raises,
\* or a fetch of a loop attempt raises, the run ends in that step with the
\* result False and DownloadedSet as it was; no fetch and no install
\* invocation follows.
C21_ErrorEndsAttempt ==
    /\ [][(InstallRaised \/ LoopFetchRaised) =>
             /\ pc' = "done"
             /\ result' = "False"
             /\ downloaded_packages' = downloaded_packages
             /\ InstallRaised => fetch_count' = fetch_count
             /\ LoopFetchRaised => install_log' = install_log]_vars
    /\ [][pc = "done" =>
             /\ fetch_count' = fetch_count
             /\ install_log' = install_log
             /\ downloaded_packages' = downloaded_packages]_vars
    /\ [](pc = "done" /\ (RoundRaised \/ \E k \in 1..InstallCalls :
                             Rc(k) \in {"InstallerNotFound", "UnexpectedError"})
             /\ InstallCalls > 0
            => /\ result = "False"
               /\ InstallCalls = attempt
               /\ Rc(InstallCalls) # "ok")

\* in the first attempt one fetch succeeded and the next one raised, with
\* attempts left
C21_Witness ==
    /\ pc = "done"
    /\ reason = "UnexpectedError"
    /\ InstallCalls = 1
    /\ max_retries = 3
    /\ RoundRaised
    /\ RoundOk # {}

====
